---- MODULE Spec2Model ----
(***************************************************************************)
(* Framr: the batch pipeline of useImageProcessor (hooks/useImageProcessor *)
(* .ts), the image queue of App (components/App.tsx) and the worker        *)
(* (workers/imageProcessor.worker.ts).                                     *)
(*                                                                         *)
(* One action is one task of the browser's event loop: a click handler, a  *)
(* settled decode with the synchronous code that follows it up to the next *)
(* await, a message event with the promise continuations it releases, or   *)
(* one synchronous stretch of the worker.                                  *)
(*                                                                         *)
(* The pure functions (utils/imageProcessing.ts, utils/downloadUtils.ts,   *)
(* utils/imageUtils.ts, utils/colorUtils.ts, the geometry and naming of    *)
(* the worker) are followed one call at a time in specifications of their  *)
(* own: SpecBorder, SpecResize, SpecCanvas, SpecFilename, SpecZip,         *)
(* SpecMemory, SpecHex, SpecContrast and SpecZipFilename. Their arithmetic *)
(* is that of doubles. SpecWorker follows the worker alone, one process    *)
(* message after the other.                                                *)
(***************************************************************************)
EXTENDS Integers, Sequences, FiniteSets, TLC

\* ------------------------------------------------------------------ bounds
MaxImages == 2      \* image files ever accepted into the queue
MaxRuns   == 2      \* calls of processImages
MaxBacklog == 0     \* the worker runs while at most this many of its messages
                    \* wait for delivery (the channel is FIFO and the worker
                    \* cannot observe the main thread, so a later delivery
                    \* of the same messages is a behaviour of the model too)

VARIABLES
    images,        \* App: useState<ImageFile[]>
    results,       \* App: useState<ProcessingResult[]> (image ids)
    state,         \* useImageProcessor: ProcessingState
    cancelledRef,  \* useImageProcessor: cancelledRef.current
    runs,          \* the activations of processImages, in call order
    nRuns,         \* number of processImages calls made so far
    listeners,     \* 'message' listeners attached to the worker, in order
    inbox,         \* process messages posted to the worker, not yet taken
    encoding,      \* worker: jobs suspended in convertToBlob
    outbox,        \* messages posted by the worker, not yet delivered
    inflight,      \* number of process messages posted whose terminal message
                   \* has not been received yet
    nextId,        \* generateId: images are numbered as they are accepted
    staleProgress, \* a listener applied a progress update for an item its run
                   \* had already left
    call           \* the call of a utility function being followed: its
                   \* arguments, its locals and what it returned

\* the variables of the batch pipeline
pipelineVars == <<images, results, state, cancelledRef, runs, nRuns, listeners,
                  inbox, encoding, outbox, inflight, nextId, staleProgress>>

vars == <<images, results, state, cancelledRef, runs, nRuns, listeners,
          inbox, encoding, outbox, inflight, nextId, staleProgress, call>>

\* no utility call is being followed
NoCall == [fn |-> "none"]

\* ------------------------------------------------------------- data types
Status == {"pending", "processing", "done", "error"}

\* createImageFile: a freshly accepted image
createImageFile(id) ==
    [id |-> id, status |-> "pending", processedBlob |-> FALSE, error |-> FALSE]

\* progress is a fraction <<numerator, denominator>>
Pct(n, d) == <<n, d>>

PctEq(a, b) == a[1] * b[2] = b[1] * a[2]

\* useState<ProcessingState> initial value, also resetState
InitialState ==
    [isProcessing |-> FALSE, currentIndex |-> 0, totalCount |-> 0,
     progress |-> Pct(0, 1), results |-> <<>>, cancelled |-> FALSE]

\* an activation of processImages that has not been called yet
\* pc, items, i and results are the activation's program counter, argument
\* and locals; the other fields record what it did:
\*   started    the indices whose loop iteration began (decode started)
\*   failed     the indices whose decode was rejected or whose listener
\*              received an error message
\*   doneLog    the indices onImageComplete was invoked for, in order
\*   errLog     the indices onImageError was invoked for, in order
\*   cancelReq  cancelProcessing was called while the activation was running,
\*   cancelIdx  and the loop index it was at when that first happened
\*   endState   isProcessing, progress and results of the hook's state right
\*              after the activation's final setState
EndStateOf(st) ==
    [isProcessing |-> st.isProcessing, progress |-> st.progress,
     results |-> st.results]

IdleRun ==
    [pc |-> "idle", items |-> <<>>, i |-> 0, results |-> <<>>,
     started |-> {}, failed |-> {}, errLog |-> <<>>, doneLog |-> <<>>,
     cancelReq |-> FALSE, cancelIdx |-> 0,
     endState |-> EndStateOf(InitialState)]

Active(r) == r.pc \in {"decoding", "waiting"}

\* ids of the items of a result list (positions in items -> image ids)
ResultIds(r) == [k \in 1..Len(r.results) |-> r.items[r.results[k] + 1]]

\* ------------------------------------------------- the main thread's state
\* The operators below transform a record m of the main thread's variables.
Main ==
    [images |-> images, results |-> results, state |-> state,
     cancelledRef |-> cancelledRef, runs |-> runs, listeners |-> listeners,
     inbox |-> inbox, inflight |-> inflight,
     staleProgress |-> staleProgress]

SetMain(m) ==
    /\ images' = m.images
    /\ results' = m.results
    /\ state' = m.state
    /\ cancelledRef' = m.cancelledRef
    /\ runs' = m.runs
    /\ listeners' = m.listeners
    /\ inbox' = m.inbox
    /\ inflight' = m.inflight
    /\ staleProgress' = m.staleProgress

\* App.handleProcess, the onImageComplete callback
OnImageComplete(m, id) ==
    [m EXCEPT
       !.images = [k \in DOMAIN @ |->
                     IF @[k].id = id
                     THEN [@[k] EXCEPT !.status = "done", !.processedBlob = TRUE]
                     ELSE @[k]],
       !.results = Append(@, id)]

\* App.handleProcess, the onImageError callback
OnImageError(m, id) ==
    [m EXCEPT
       !.images = [k \in DOMAIN @ |->
                     IF @[k].id = id
                     THEN [@[k] EXCEPT !.status = "error", !.error = TRUE]
                     ELSE @[k]]]

\* processImages: the statements after the for loop
FinishRun(m, r) ==
    LET run == m.runs[r]
        st  == [m.state EXCEPT !.isProcessing = FALSE,
                               !.progress = Pct(100, 1),
                               !.results = ResultIds(run)]
    IN [m EXCEPT !.state = st,
                 !.runs[r].pc = "done",
                 !.runs[r].endState = EndStateOf(st)]

\* processImages: the head of one loop iteration, up to `await loadImage`
LoopHead(m, r) ==
    LET run == m.runs[r]
        n   == Len(run.items)
    IN IF run.i >= n \/ m.cancelledRef
       THEN FinishRun(m, r)
       ELSE [m EXCEPT !.state.currentIndex = run.i,
                      !.state.progress = Pct(100 * run.i, n),
                      !.runs[r].pc = "decoding",
                      !.runs[r].started = @ \cup {run.i}]

\* variant: the cancellation flag is reset before the arguments are checked
ProcessImagesCall_ResetFirst(m, r, items) ==
    IF Len(items) = 0
    THEN [m EXCEPT !.cancelledRef = FALSE,
                   !.runs[r] = [IdleRun EXCEPT !.pc = "done",
                                              !.endState = EndStateOf(m.state)]]
    ELSE LoopHead(
           [m EXCEPT !.cancelledRef = FALSE,
                     !.state = [isProcessing |-> TRUE, currentIndex |-> 0,
                                totalCount |-> Len(items),
                                progress |-> Pct(0, 1), results |-> <<>>,
                                cancelled |-> FALSE],
                     !.runs[r] = [IdleRun EXCEPT !.items = items]],
           r)

\* processImages: from the call to the first await
ProcessImagesCall(m, r, items) ==
    IF Len(items) = 0
    THEN [m EXCEPT !.runs[r] = [IdleRun EXCEPT !.pc = "done",
                                              !.endState = EndStateOf(m.state)]]
    ELSE LoopHead(
           [m EXCEPT !.cancelledRef = FALSE,
                     !.state = [isProcessing |-> TRUE, currentIndex |-> 0,
                                totalCount |-> Len(items),
                                progress |-> Pct(0, 1), results |-> <<>>,
                                cancelled |-> FALSE],
                     !.runs[r] = [IdleRun EXCEPT !.items = items]],
           r)

\* variant: the result is put at the front of the list
AfterResult_Prepend(m, r) ==
    LET run == m.runs[r]
        m1  == [m EXCEPT !.runs[r].results = <<run.i>> \o @,
                         !.runs[r].doneLog = Append(@, run.i)]
        m2  == OnImageComplete(m1, run.items[run.i + 1])
    IN LoopHead([m2 EXCEPT !.runs[r].i = @ + 1], r)

\* processImages: results.push, onImageComplete, next iteration
AfterResult(m, r) ==
    LET run == m.runs[r]
        m1  == [m EXCEPT !.runs[r].results = Append(@, run.i),
                         !.runs[r].doneLog = Append(@, run.i)]
        m2  == OnImageComplete(m1, run.items[run.i + 1])
    IN LoopHead([m2 EXCEPT !.runs[r].i = @ + 1], r)

\* variant: the try/catch encloses the loop, a failure ends the run
AfterFailure_Break(m, r) ==
    LET run == m.runs[r]
        m1  == [m EXCEPT !.runs[r].errLog = Append(@, run.i)]
        m2  == OnImageError(m1, run.items[run.i + 1])
    IN FinishRun([m2 EXCEPT !.runs[r].i = @ + 1], r)

\* processImages: the catch block, next iteration
AfterFailure(m, r) ==
    LET run == m.runs[r]
        m1  == [m EXCEPT !.runs[r].errLog = Append(@, run.i)]
        m2  == OnImageError(m1, run.items[run.i + 1])
    IN LoopHead([m2 EXCEPT !.runs[r].i = @ + 1], r)

\* processImages: the promise executor (addEventListener, postMessage)
Dispatch(m, r) ==
    LET run == m.runs[r]
        id  == run.items[run.i + 1]
    IN [m EXCEPT
          !.listeners = Append(@, [run |-> r, idx |-> run.i, imageId |-> id]),
          !.inbox = Append(@, id),
          !.inflight = @ + 1,
          !.runs[r].pc = "waiting"]

\* a rejection reaches the try block of the current item
Rejected(m, r) == [m EXCEPT !.runs[r].failed = @ \cup {m.runs[r].i}]

\* the message handler, branch data.type === 'progress'
HandleProgress(m, h, p) ==
    LET n == Len(m.runs[h.run].items)
    IN [m EXCEPT !.state.progress = Pct(100 * h.idx + p, n),
                 !.staleProgress =
                     \/ @
                     \/ m.runs[h.run].pc # "waiting"
                     \/ m.runs[h.run].i # h.idx]

\* the message handler, branches 'result' and 'error': the listener removes
\* itself, the promise settles and the loop body continues
\* variant: the listener stays attached
RemoveListener_Keep(ls, h) == ls

RemoveListener(ls, h) == SelectSeq(ls, LAMBDA x : x # h)

\* variant: an error message removes the listener but does not reject
HandleTerminal_NoReject(m, h, type) ==
    LET m1 == [m EXCEPT !.listeners = RemoveListener(@, h)]
    IN IF m.runs[h.run].pc = "waiting" /\ m.runs[h.run].i = h.idx /\ type = "result"
       THEN AfterResult(m1, h.run)
       ELSE m1

\* (a promise settles once: a handler whose run has left its item settles
\* nothing)
HandleTerminal(m, h, type) ==
    LET m1 == [m EXCEPT !.listeners = RemoveListener(@, h)]
    IN IF m.runs[h.run].pc = "waiting" /\ m.runs[h.run].i = h.idx
       THEN IF type = "result" THEN AfterResult(m1, h.run)
                               ELSE AfterFailure(Rejected(m1, h.run), h.run)
       ELSE m1

\* the message handler of one listener
Handler(m, h, msg) ==
    IF msg.imageId # h.imageId THEN m
    ELSE IF msg.type = "progress" THEN HandleProgress(m, h, msg.progress)
    ELSE HandleTerminal(m, h, msg.type)

\* a message event is dispatched to the listeners attached when it fires
RECURSIVE DispatchEvent(_, _, _)
DispatchEvent(m, hs, msg) ==
    IF hs = <<>> THEN m
    ELSE DispatchEvent(Handler(m, Head(hs), msg), Tail(hs), msg)

\* ------------------------------------------------------------------- Init
\* the hook, App and the worker after mounting
Mounted ==
    /\ images = <<>>
    /\ results = <<>>
    /\ state = InitialState
    /\ cancelledRef = FALSE
    /\ runs = [r \in 1..MaxRuns |-> IdleRun]
    /\ nRuns = 0
    /\ listeners = <<>>
    /\ inbox = <<>>
    /\ encoding = [id \in 1..MaxImages |-> 0]
    /\ outbox = <<>>
    /\ inflight = 0
    /\ nextId = 1
    /\ staleProgress = FALSE

Init == Mounted /\ call = NoCall

\* ---------------------------------------------------------------- actions
\* App.handleFilesSelected: k files are accepted and appended
HandleFilesSelected ==
    /\ \E k \in 1..MaxImages :
         /\ nextId + k - 1 <= MaxImages
         /\ images' = images \o [j \in 1..k |-> createImageFile(nextId + j - 1)]
         /\ nextId' = nextId + k
    /\ UNCHANGED <<results, state, cancelledRef, runs, nRuns, listeners,
                   inbox, encoding, outbox, inflight, staleProgress, call>>

\* App.handleRemoveImage
HandleRemoveImage ==
    /\ \E k \in DOMAIN images :
         /\ images' = SelectSeq(images, LAMBDA x : x.id # images[k].id)
         /\ results' = SelectSeq(results, LAMBDA x : x # images[k].id)
    /\ UNCHANGED <<state, cancelledRef, runs, nRuns, listeners, inbox,
                   encoding, outbox, inflight, nextId, staleProgress, call>>

\* App.handleClearAll (the button is rendered when the queue is not empty)
HandleClearAll ==
    /\ Len(images) > 0
    /\ images' = <<>>
    /\ results' = <<>>
    /\ state' = InitialState
    /\ UNCHANGED <<cancelledRef, runs, nRuns, listeners, inbox, encoding,
                   outbox, inflight, nextId, staleProgress, call>>

\* App.handleProcess. DownloadPanel and MobileActionBar offer the Process
\* button when isProcessing is false and some image is Pending; the handler
\* itself returns when no image is Pending.
HandleProcess ==
    LET pending == SelectSeq(images, LAMBDA x : x.status = "pending")
        items   == [k \in 1..Len(pending) |-> pending[k].id]
        m0      == [Main EXCEPT
                      !.images = [k \in DOMAIN @ |->
                                    IF @[k].status = "pending"
                                    THEN [@[k] EXCEPT !.status = "processing"]
                                    ELSE @[k]]]
    IN /\ ~state.isProcessing
       /\ Len(pending) > 0
       /\ nRuns < MaxRuns
       /\ nRuns' = nRuns + 1
       /\ SetMain(ProcessImagesCall(m0, nRuns + 1, items))
       /\ UNCHANGED <<encoding, outbox, nextId, call>>

\* processImages called with an empty list (App never does: handleProcess
\* returns first; the hook's contract covers the call)
ProcessImagesEmpty ==
    /\ nRuns < MaxRuns
    /\ nRuns' = nRuns + 1
    /\ SetMain(ProcessImagesCall(Main, nRuns + 1, <<>>))
    /\ UNCHANGED <<encoding, outbox, nextId, call>>

\* cancelProcessing
CancelProcessing(m) ==
    [m EXCEPT
       !.cancelledRef = TRUE,
       !.state = [@ EXCEPT !.cancelled = TRUE, !.isProcessing = FALSE],
       !.runs = [r \in DOMAIN m.runs |->
                   IF Active(m.runs[r]) /\ ~m.runs[r].cancelReq
                   THEN [m.runs[r] EXCEPT !.cancelReq = TRUE,
                                          !.cancelIdx = m.runs[r].i]
                   ELSE m.runs[r]]]

\* App.handleCancel. DownloadPanel and MobileActionBar offer the Cancel
\* button while isProcessing is true.
HandleCancel ==
    LET m1 == CancelProcessing(Main)
        m2 == [m1 EXCEPT
                 !.images = [k \in DOMAIN @ |->
                               IF @[k].status = "processing"
                               THEN [@[k] EXCEPT !.status = "pending"]
                               ELSE @[k]]]
    IN /\ state.isProcessing
       /\ SetMain(m2)
       /\ UNCHANGED <<nRuns, encoding, outbox, nextId, call>>

\* loadImage and createImageBitmap settle: the item is dispatched, or the
\* rejection is caught and the loop goes on. Nothing runs between the two
\* awaits, so they are one step; the decode capability may fail on any
\* attempt.
DecodeDone(r) ==
    \E ok \in BOOLEAN :
       /\ runs[r].pc = "decoding"
       /\ SetMain(IF ok THEN Dispatch(Main, r)
                        ELSE AfterFailure(Rejected(Main, r), r))
       /\ UNCHANGED <<nRuns, encoding, outbox, nextId, call>>

\* the worker's messages
ProgressMessage(id, p) == [type |-> "progress", imageId |-> id, progress |-> p]

ResultMessage(id) == [type |-> "result", imageId |-> id, progress |-> 0]

ErrorMessage(id) == [type |-> "error", imageId |-> id, progress |-> 0]

\* where the synchronous part of processImage can throw: nowhere, in
\* new OffscreenCanvas / getContext / fillRect, or in drawImage
Failures == {"none", "canvas", "draw"}

\* processImage up to `await convertToBlob`, or up to the catch block when
\* the canvas or the drawing throws: the messages it posts
ProcessImageToAwait(id, fail) ==
    CASE fail = "canvas" ->
            <<ProgressMessage(id, 10), ProgressMessage(id, 30),
              ErrorMessage(id)>>
      [] fail = "draw" ->
            <<ProgressMessage(id, 10), ProgressMessage(id, 30),
              ProgressMessage(id, 50), ErrorMessage(id)>>
      [] OTHER ->
            <<ProgressMessage(id, 10), ProgressMessage(id, 30),
              ProgressMessage(id, 50), ProgressMessage(id, 70)>>

\* processImage after convertToBlob has settled: fulfilled or rejected
ProcessImageAfterAwait(id, ok) ==
    IF ok THEN <<ProgressMessage(id, 90), ResultMessage(id)>>
          ELSE <<ErrorMessage(id)>>

\* worker: self.onmessage and processImage up to `await convertToBlob`, or
\* up to the catch block when the canvas or the drawing throws
WorkerReceive ==
    /\ inbox # <<>>
    /\ Len(outbox) <= MaxBacklog
    /\ LET id == Head(inbox)
       IN \E fail \in Failures :
            /\ outbox' = outbox \o ProcessImageToAwait(id, fail)
            /\ encoding' = IF fail = "none"
                           THEN [encoding EXCEPT ![id] = @ + 1]
                           ELSE encoding
    /\ inbox' = Tail(inbox)
    /\ UNCHANGED <<images, results, state, cancelledRef, runs, nRuns,
                   listeners, inflight, nextId, staleProgress, call>>

\* worker: convertToBlob settles
WorkerEncodeDone ==
    \E id \in DOMAIN encoding : \E ok \in BOOLEAN :
       /\ encoding[id] > 0
       /\ Len(outbox) <= MaxBacklog
       /\ encoding' = [encoding EXCEPT ![id] = @ - 1]
       /\ outbox' = outbox \o ProcessImageAfterAwait(id, ok)
       /\ UNCHANGED <<images, results, state, cancelledRef, runs, nRuns,
                      listeners, inbox, inflight, nextId, staleProgress, call>>

\* main thread: one message event of the worker
Deliver ==
    /\ outbox # <<>>
    /\ LET msg == Head(outbox)
           m1  == DispatchEvent(Main, listeners, msg)
           m2  == IF msg.type = "progress" THEN m1
                  ELSE [m1 EXCEPT !.inflight = @ - 1]
       IN SetMain(m2)
    /\ outbox' = Tail(outbox)
    /\ UNCHANGED <<nRuns, encoding, nextId, call>>

Next ==
    \/ HandleFilesSelected
    \/ HandleRemoveImage
    \/ HandleClearAll
    \/ HandleProcess
    \/ ProcessImagesEmpty
    \/ HandleCancel
    \/ \E r \in 1..MaxRuns : DecodeDone(r)
    \/ WorkerReceive
    \/ WorkerEncodeDone
    \/ Deliver

Spec == Init /\ [][Next]_vars

\* The event loop runs every task that is queued: a decode settles, the
\* worker takes every message and finishes every encode (it answers every
\* process message), and every message of the worker is delivered.
Fairness ==
    /\ \A r \in 1..MaxRuns : WF_vars(DecodeDone(r))
    /\ WF_vars(WorkerReceive)
    /\ WF_vars(WorkerEncodeDone)
    /\ WF_vars(Deliver)

\* the pipeline as App's Process and Cancel buttons drive it
NextPipeline ==
    \/ HandleFilesSelected
    \/ HandleProcess
    \/ HandleCancel
    \/ \E r \in 1..MaxRuns : DecodeDone(r)
    \/ WorkerReceive
    \/ WorkerEncodeDone
    \/ Deliver

SpecFair == Init /\ [][NextPipeline]_vars /\ Fairness

TypeOK ==
    /\ \A k \in DOMAIN images : images[k].status \in Status
    /\ nRuns \in 0..MaxRuns
    /\ cancelledRef \in BOOLEAN

\* ===================================================== utility functions
\* utils/imageProcessing.ts, utils/downloadUtils.ts, utils/imageUtils.ts,
\* utils/colorUtils.ts and the geometry of the worker's processImage. A call is followed in the variable `call`: the
\* initial state holds the arguments, one action runs the function.

\* ------------------------------------------------- JavaScript arithmetic
\* A number is an IEEE 754 double: a finite value (an integer here), NaN or
\* Infinity.
Num(n) == [k |-> "number", v |-> n]

NaN == [k |-> "NaN", v |-> 0]

Infinity == [k |-> "Infinity", v |-> 0]

\* x + y
Plus(x, y) ==
    IF x.k = "NaN" \/ y.k = "NaN" THEN NaN
    ELSE IF x.k = "Infinity" \/ y.k = "Infinity" THEN Infinity
    ELSE Num(x.v + y.v)

\* Math.min on integers
Min(a, b) == IF a <= b THEN a ELSE b

\* the nearest integer to N / d, halves upwards, in exact arithmetic
ExactRound(N, d) == (2 * N + d) \div (2 * d)

\* N / d lies exactly halfway between two integers
IsTie(N, d) == (2 * N) % d = 0 /\ ((2 * N) \div d) % 2 = 1

\* floor(log2(a / b)) for a, b > 0: the binary exponent of the double a / b
RECURSIVE Exp2Up(_, _, _)
Exp2Up(a, b, e) == IF 2 * b * 2^e <= a THEN Exp2Up(a, b, e + 1) ELSE e

RECURSIVE Exp2Down(_, _, _)
Exp2Down(a, b, e) == IF a * 2^e < b THEN Exp2Down(a, b, e + 1) ELSE 0 - e

Exp2(a, b) == IF a >= b THEN Exp2Up(a, b, 0) ELSE Exp2Down(a, b, 1)

\* 2^p mod b
RECURSIVE PowMod2(_, _)
PowMod2(p, b) == IF p = 0 THEN 1 % b ELSE (2 * PowMod2(p - 1, b)) % b

\* The double a / b is the quotient rounded to 53 significant bits. With
\* p = 52 - Exp2(a, b) it equals (a * 2^p + Resid(a, b)) / (b * 2^p):
\* Resid is negative when the division rounded down, positive when it
\* rounded up and 0 when a / b is exact.
Resid(a, b) ==
    LET t == (a * PowMod2(52 - Exp2(a, b), b)) % b
    IN IF 2 * t < b THEN 0 - t ELSE b - t

\* Math.round(m * (a / b)) for integers m, a >= 0 and b > 0.
\* Off a tie the rounding errors of the division and of the product are far
\* too small to change the nearest integer. On a tie k + 1/2 the product of
\* m and a quotient that was rounded down lies below k + 1/2, and the
\* multiplication returns k + 1/2 only if the product is within half a unit
\* in the last place of it (2^(E - 53) with E the exponent of k + 1/2, half
\* of that below a power of two); Math.round takes k + 1/2 to k + 1 and
\* anything below it to k.
RoundMul(m, a, b) ==
    IF m = 0 \/ a = 0 THEN 0
    ELSE IF ~IsTie(m * a, b) THEN ExactRound(m * a, b)
    ELSE LET k == (m * a) \div b
             r == Resid(a, b)
             X == Exp2(2 * k + 1, 2) - Exp2(a, b) - (IF k > 0 THEN 1 ELSE 2)
             keep == IF X >= 0 THEN m * (0 - r) <= b * 2^X
                               ELSE m * (0 - r) * 2^(0 - X) <= b
         IN IF r >= 0 \/ keep THEN k + 1 ELSE k

\* Math.round(m / (a / b)) for integers m >= 0 and a, b > 0: as RoundMul,
\* with the quotient below k + 1/2 when the division a / b rounded up.
RoundDiv(m, a, b) ==
    IF m = 0 THEN 0
    ELSE IF ~IsTie(m * b, a) THEN ExactRound(m * b, a)
    ELSE LET k == (m * b) \div a
             r == Resid(a, b)
             e == Exp2(a, b)
             E == Exp2(2 * k + 1, 2) - (IF k > 0 THEN 0 ELSE 1)
             g == IF E >= e THEN E ELSE e
             keep == (2 * k + 1) * r * 2^(g - E) <= a * 2^(g - e)
         IN IF r <= 0 \/ keep THEN k + 1 ELSE k

\* Math.round(m * (a / b)) with a zero divisor: a / 0 is Infinity or NaN
MulRatio(m, a, b) ==
    IF b = 0 THEN (IF a = 0 \/ m = 0 THEN NaN ELSE Infinity)
    ELSE Num(RoundMul(m, a, b))

\* Math.round(m / (a / b)): m / Infinity is 0, m / 0 is Infinity or NaN
DivRatio(m, a, b) ==
    IF b = 0 THEN (IF a = 0 THEN NaN ELSE Num(0))
    ELSE IF a = 0 THEN (IF m = 0 THEN NaN ELSE Infinity)
    ELSE Num(RoundDiv(m, a, b))

\* ---------------------------------------------------- calculateBorderSize
MaxDim      == 25    \* widths and heights handed to calculateBorderSize
MaxBorderPx == 21    \* border widths in pixels
MaxPercent  == 100   \* border widths in percent

BorderSettingsSet ==
    [width : 0..MaxBorderPx, widthUnit : {"px"}, aspectAware : BOOLEAN]
    \cup [width : 0..MaxPercent, widthUnit : {"%"}, aspectAware : BOOLEAN]

\* calculateBorderSize, the local borderSize
BorderSize(imageWidth, imageHeight, borderSettings) ==
    IF borderSettings.widthUnit = "%"
    THEN RoundMul(Min(imageWidth, imageHeight), borderSettings.width, 100)
    ELSE borderSettings.width

calculateBorderSize(imageWidth, imageHeight, borderSettings) ==
    LET borderSize == BorderSize(imageWidth, imageHeight, borderSettings)
        \* aspectRatio = imageWidth / imageHeight compared with 1
        wide == \/ imageHeight > 0 /\ imageWidth > imageHeight
                \/ imageHeight = 0 /\ imageWidth > 0
        tall == imageHeight > 0 /\ imageWidth < imageHeight
        horizontalBorder == MulRatio(borderSize, imageWidth, imageHeight)
        verticalBorder == DivRatio(borderSize, imageWidth, imageHeight)
    IN IF borderSettings.aspectAware /\ wide
       THEN [top |-> Num(borderSize), right |-> horizontalBorder,
             bottom |-> Num(borderSize), left |-> horizontalBorder]
       ELSE IF borderSettings.aspectAware /\ tall
       THEN [top |-> verticalBorder, right |-> Num(borderSize),
             bottom |-> verticalBorder, left |-> Num(borderSize)]
       ELSE [top |-> Num(borderSize), right |-> Num(borderSize),
             bottom |-> Num(borderSize), left |-> Num(borderSize)]

\* the call has returned
Returned(fn) == call.fn = fn /\ call.ret # <<>>

InitBorder ==
    /\ Mounted
    /\ call \in [fn : {"calculateBorderSize"},
                 imageWidth : 0..MaxDim, imageHeight : 0..MaxDim,
                 borderSettings : BorderSettingsSet, ret : {<<>>}]

CalculateBorderSizeCall ==
    /\ call.fn = "calculateBorderSize"
    /\ call.ret = <<>>
    /\ call' = [call EXCEPT !.ret = <<calculateBorderSize(
                    call.imageWidth, call.imageHeight, call.borderSettings)>>]
    /\ UNCHANGED pipelineVars

NextBorder == CalculateBorderSizeCall

SpecBorder == InitBorder /\ [][NextBorder]_vars

\* ---------------------------------------------- calculateOutputDimensions
MaxOrig   == 6    \* original widths and heights, 1..MaxOrig
MaxTarget == 6    \* requested widths and heights; 0 stands for "not given"
                  \* (undefined and 0 are both falsy and both fall back)

\* requested sizes in percent: multiples of 25
ResizeSettingsSet ==
    [enabled : BOOLEAN, width : 0..MaxTarget, height : 0..MaxTarget,
     unit : {"px"}, maintainAspect : BOOLEAN]
    \cup [enabled : BOOLEAN, width : {25 * k : k \in 0..MaxTarget},
          height : {25 * k : k \in 0..MaxTarget},
          unit : {"%"}, maintainAspect : BOOLEAN]

\* calculateOutputDimensions with resize enabled: targetWidth and
\* targetHeight as they stand before the return statement
ResizeTarget(originalWidth, originalHeight, resizeSettings) ==
    LET w1 == IF resizeSettings.unit = "%" /\ resizeSettings.width # 0
              THEN RoundMul(originalWidth, resizeSettings.width, 100)
              ELSE resizeSettings.width
        h1 == IF resizeSettings.unit = "%" /\ resizeSettings.height # 0
              THEN RoundMul(originalHeight, resizeSettings.height, 100)
              ELSE resizeSettings.height
    IN IF ~resizeSettings.maintainAspect
       THEN [width |-> w1, height |-> h1]
       ELSE IF w1 # 0 /\ h1 = 0
       THEN [width |-> w1,
             height |-> RoundDiv(w1, originalWidth, originalHeight)]
       ELSE IF h1 # 0 /\ w1 = 0
       THEN [width |-> RoundMul(h1, originalWidth, originalHeight),
             height |-> h1]
       ELSE IF w1 # 0 /\ h1 # 0
       THEN \* ratio = Math.min(widthRatio, heightRatio)
            IF w1 * originalHeight <= h1 * originalWidth
            THEN [width |-> RoundMul(originalWidth, w1, originalWidth),
                  height |-> RoundMul(originalHeight, w1, originalWidth)]
            ELSE [width |-> RoundMul(originalWidth, h1, originalHeight),
                  height |-> RoundMul(originalHeight, h1, originalHeight)]
       ELSE [width |-> w1, height |-> h1]

\* the return statement: targetWidth || originalWidth
OrOriginal(originalWidth, originalHeight, target) ==
    [width |-> IF target.width # 0 THEN target.width ELSE originalWidth,
     height |-> IF target.height # 0 THEN target.height ELSE originalHeight]

\* variant: the enabled flag is not consulted
calculateOutputDimensions_NoEnabledCheck(originalWidth, originalHeight, resizeSettings) ==
    OrOriginal(originalWidth, originalHeight,
               ResizeTarget(originalWidth, originalHeight, resizeSettings))

calculateOutputDimensions(originalWidth, originalHeight, resizeSettings) ==
    IF ~resizeSettings.enabled
    THEN [width |-> originalWidth, height |-> originalHeight]
    ELSE OrOriginal(originalWidth, originalHeight,
                    ResizeTarget(originalWidth, originalHeight, resizeSettings))

InitResize ==
    /\ Mounted
    /\ call \in [fn : {"calculateOutputDimensions"},
                 originalWidth : 1..MaxOrig, originalHeight : 1..MaxOrig,
                 resizeSettings : ResizeSettingsSet, ret : {<<>>}]

CalculateOutputDimensionsCall ==
    /\ call.fn = "calculateOutputDimensions"
    /\ call.ret = <<>>
    /\ call' = [call EXCEPT !.ret = <<calculateOutputDimensions(
                    call.originalWidth, call.originalHeight,
                    call.resizeSettings)>>]
    /\ UNCHANGED pipelineVars

NextResize == CalculateOutputDimensionsCall

SpecResize == InitResize /\ [][NextResize]_vars

\* ------------------------------------- processImage: the destination surface
MaxBitmap       == 4   \* bitmap widths and heights, 1..MaxBitmap
MaxCanvasBorder == 2   \* border widths 0..MaxCanvasBorder px, or 5 percent each

\* the decoded bitmaps: small ones and a 4000 x 3000 photograph
Bitmaps ==
    [width : 1..MaxBitmap, height : 1..MaxBitmap]
    \cup {[width |-> 4000, height |-> 3000]}

CanvasBorderSet ==
    [width : 0..MaxCanvasBorder, widthUnit : {"px"}, aspectAware : BOOLEAN]
    \cup [width : {5 * k : k \in 0..MaxCanvasBorder}, widthUnit : {"%"},
          aspectAware : BOOLEAN]

\* new OffscreenCanvas(width, height) throws unless both are finite and >= 0
CanvasOk(canvasWidth, canvasHeight) ==
    /\ canvasWidth.k = "number" /\ canvasWidth.v >= 0
    /\ canvasHeight.k = "number" /\ canvasHeight.v >= 0

\* the surface and the drawImage call for given output size and insets
Composite(resized, borderSizes) ==
    LET canvasWidth == Plus(Plus(Num(resized.width), borderSizes.left),
                            borderSizes.right)
        canvasHeight == Plus(Plus(Num(resized.height), borderSizes.top),
                             borderSizes.bottom)
    IN IF CanvasOk(canvasWidth, canvasHeight)
       THEN [type |-> "drawn",
             canvasWidth |-> canvasWidth, canvasHeight |-> canvasHeight,
             dx |-> borderSizes.left, dy |-> borderSizes.top,
             dWidth |-> resized.width, dHeight |-> resized.height]
       ELSE [type |-> "error"]

\* variant: the insets are computed from the bitmap's own size
processImageCanvas_BorderOfOriginal(imageBitmap, config) ==
    Composite(calculateOutputDimensions(imageBitmap.width, imageBitmap.height,
                                        config.resize),
              calculateBorderSize(imageBitmap.width, imageBitmap.height,
                                  config.border))

\* processImage from calculateOutputDimensions to drawImage
processImageCanvas(imageBitmap, config) ==
    LET resized == calculateOutputDimensions(imageBitmap.width,
                                             imageBitmap.height, config.resize)
    IN Composite(resized,
                 calculateBorderSize(resized.width, resized.height,
                                     config.border))

InitCanvas ==
    /\ Mounted
    /\ call \in [fn : {"processImage"}, imageBitmap : Bitmaps,
                 config : [border : CanvasBorderSet,
                           resize : ResizeSettingsSet],
                 ret : {<<>>}]

\* the worker receives the process message (posted by processImages for
\* every pending image, whatever the settings are) and composites
ProcessImageCall ==
    /\ call.fn = "processImage"
    /\ call.ret = <<>>
    /\ call' = [call EXCEPT
                  !.ret = <<processImageCanvas(call.imageBitmap, call.config)>>]
    /\ UNCHANGED pipelineVars

NextCanvas == ProcessImageCall

SpecCanvas == InitCanvas /\ [][NextCanvas]_vars

\* ------------------------------------------------- generateOutputFilename
\* A file name is a sequence of characters.
MaxStem == 2    \* characters of a file name before its last piece

\* sequences over S of length at most n
SeqsUpTo(S, n) == UNION {[1..k -> S] : k \in 0..n}

\* the last pieces of the file names: none, a lone dot, .jpg, .jpeg, .JPEG,
\* .png
NameEndings ==
    { <<>>, <<".">>, <<".", "j", "p", "g">>, <<".", "j", "p", "e", "g">>,
      <<".", "J", "P", "E", "G">>, <<".", "p", "n", "g">> }

FileNames == {s \o e : s \in SeqsUpTo({"a", "."}, MaxStem), e \in NameEndings}

\* OutputSettings.format
OutputFormats == {"original", "jpeg", "png", "webp"}

\* the characters of a format name
FormatChars(format) ==
    CASE format = "jpeg" -> <<"j", "p", "e", "g">>
      [] format = "png" -> <<"p", "n", "g">>
      [] format = "webp" -> <<"w", "e", "b", "p">>
      [] OTHER -> <<"o", "r", "i", "g", "i", "n", "a", "l">>

\* String.prototype.toLowerCase
ToLowerCase(s) ==
    [k \in DOMAIN s |->
        CASE s[k] = "J" -> "j" [] s[k] = "P" -> "p" [] s[k] = "E" -> "e"
          [] s[k] = "G" -> "g" [] OTHER -> s[k]]

\* where /\.[^.]+$/ matches: the index of the last dot when characters
\* follow it, 0 when the expression does not match
ExtensionStart(name) ==
    LET dots == {k \in DOMAIN name : name[k] = "."}
        last == IF dots = {} THEN 0
                ELSE CHOOSE k \in dots : \A j \in dots : j <= k
    IN IF last = Len(name) THEN 0 ELSE last

getFileExtension(filename) ==
    LET k == ExtensionStart(filename)
    IN IF k = 0 THEN <<"j", "p", "g">>
       ELSE ToLowerCase(SubSeq(filename, k + 1, Len(filename)))

getMimeType(format) ==
    LET f == ToLowerCase(format)
    IN CASE f = <<"j", "p", "g">> -> "image/jpeg"
         [] f = <<"j", "p", "e", "g">> -> "image/jpeg"
         [] f = <<"p", "n", "g">> -> "image/png"
         [] f = <<"w", "e", "b", "p">> -> "image/webp"
         [] f = <<"t", "i", "f", "f">> -> "image/tiff"
         [] f = <<"t", "i", "f">> -> "image/tiff"
         [] OTHER -> "image/jpeg"

generateOutputFilename(originalName, outputFormat) ==
    LET k == ExtensionStart(originalName)
        baseName == IF k = 0 THEN originalName
                    ELSE SubSeq(originalName, 1, k - 1)
        extension == IF outputFormat = "original"
                     THEN getFileExtension(originalName)
                     ELSE IF outputFormat = "jpeg" THEN <<"j", "p", "g">>
                     ELSE FormatChars(outputFormat)
    IN baseName \o <<"_", "b", "o", "r", "d", "e", "r", "e", "d", ".">>
                \o extension

\* processImage: the type handed to convertToBlob
OutputMimeType(outputFormat, originalFormat) ==
    IF outputFormat = "original"
    THEN getMimeType(getFileExtension(originalFormat))
    ELSE getMimeType(FormatChars(outputFormat))

InitFilename ==
    /\ Mounted
    /\ call \in [fn : {"generateOutputFilename"}, filename : FileNames,
                 format : OutputFormats, ret : {<<>>}]

\* processImage from the choice of mimeType to the result message; the hook
\* posts image.name as both originalFormat and filename
GenerateOutputFilenameCall ==
    /\ call.fn = "generateOutputFilename"
    /\ call.ret = <<>>
    /\ call' = [call EXCEPT !.ret =
                  <<[mimeType |-> OutputMimeType(call.format, call.filename),
                     filename |-> generateOutputFilename(call.filename,
                                                         call.format)]>>]
    /\ UNCHANGED pipelineVars

NextFilename == GenerateOutputFilenameCall

SpecFilename == InitFilename /\ [][NextFilename]_vars

\* ---------------------------------------------------------- downloadAsZip
MaxResults == 3    \* results handed to downloadAsZip

\* the file names of the results: a.j, a_1.j, a, a_1 and a_bordered.jpg
ZipNames ==
    { <<"a", ".", "j">>, <<"a", "_", "1", ".", "j">>, <<"a">>,
      <<"a", "_", "1">>,
      <<"a", "_", "b", "o", "r", "d", "e", "r", "e", "d", ".", "j", "p", "g">> }

\* the decimal digits of n >= 0, as the template literal writes a number
RECURSIVE Digits(_)
Digits(n) ==
    LET d == <<"0", "1", "2", "3", "4", "5", "6", "7", "8", "9">>
    IN IF n < 10 THEN <<d[n + 1]>>
       ELSE Digits(n \div 10) \o <<d[(n % 10) + 1]>>

\* the body of the while loop: `${baseName}_${counter}${extension}`
Renamed(resultFilename, counter) ==
    LET k == ExtensionStart(resultFilename)
        baseName == IF k = 0 THEN resultFilename
                    ELSE SubSeq(resultFilename, 1, k - 1)
        extension == IF k = 0 THEN <<>>
                     ELSE SubSeq(resultFilename, k, Len(resultFilename))
    IN baseName \o <<"_">> \o Digits(counter) \o extension

\* variant: the name is not recorded as used
AddUsedName_Forget(usedNames, filename) == usedNames

\* usedNames.add(filename)
AddUsedName(usedNames, filename) == usedNames \cup {filename}

InitZip ==
    /\ Mounted
    /\ call \in [fn : {"downloadAsZip"},
                 results : SeqsUpTo(ZipNames, MaxResults),
                 pc : {"for"}, i : {0}, filename : {<<>>}, counter : {1},
                 usedNames : {{}}, entries : {<<>>}]

\* for (const result of results): let filename = result.filename, counter = 1
ZipNextResult ==
    /\ call.fn = "downloadAsZip"
    /\ call.pc = "for"
    /\ call.i < Len(call.results)
    /\ call' = [call EXCEPT !.i = @ + 1, !.pc = "while",
                            !.filename = call.results[call.i + 1],
                            !.counter = 1]
    /\ UNCHANGED pipelineVars

\* while (usedNames.has(filename)): one iteration
ZipRename ==
    /\ call.fn = "downloadAsZip"
    /\ call.pc = "while"
    /\ call.filename \in call.usedNames
    /\ call' = [call EXCEPT
                  !.filename = Renamed(call.results[call.i], call.counter),
                  !.counter = @ + 1]
    /\ UNCHANGED pipelineVars

\* the loop is left: usedNames.add(filename); zip.file(filename, result.blob)
ZipAddFile ==
    /\ call.fn = "downloadAsZip"
    /\ call.pc = "while"
    /\ call.filename \notin call.usedNames
    /\ call' = [call EXCEPT
                  !.usedNames = AddUsedName(@, call.filename),
                  !.entries = Append(@, call.filename),
                  !.pc = "for"]
    /\ UNCHANGED pipelineVars

\* every result is in the archive: generateAsync and saveAs
ZipGenerate ==
    /\ call.fn = "downloadAsZip"
    /\ call.pc = "for"
    /\ call.i = Len(call.results)
    /\ call' = [call EXCEPT !.pc = "done"]
    /\ UNCHANGED pipelineVars

NextZip == ZipNextResult \/ ZipRename \/ ZipAddFile \/ ZipGenerate

\* the loops are synchronous code: they keep running
SpecZip == InitZip /\ [][NextZip]_vars /\ WF_vars(NextZip)

\* ----------------------------------------------------- checkMemoryWarning
MaxQueue == 3    \* images in the queue handed to checkMemoryWarning

\* originalWidth and originalHeight of the queued images; 8000 x 8192 pixels
\* are 500 MiB at eight bytes a pixel, 8000 x 4096 half of that
ImageSizes ==
    { [originalWidth |-> 1, originalHeight |-> 1],
      [originalWidth |-> 4000, originalHeight |-> 3000],
      [originalWidth |-> 8000, originalHeight |-> 4096],
      [originalWidth |-> 8000, originalHeight |-> 8192],
      [originalWidth |-> 8192, originalHeight |-> 8001] }

\* images.reduce((sum, img) => sum + img.originalWidth * img.originalHeight, 0)
RECURSIVE TotalPixels(_)
TotalPixels(imgs) ==
    IF imgs = <<>> THEN 0
    ELSE TotalPixels(SubSeq(imgs, 1, Len(imgs) - 1))
         + imgs[Len(imgs)].originalWidth * imgs[Len(imgs)].originalHeight

\* variant: the threshold itself already warns
checkMemoryWarning_AtThreshold(imgs) ==
    LET estimatedMemory == TotalPixels(imgs) * 4 * 2
    IN estimatedMemory >= 500 * 1024 * 1024

\* every quantity is an integer below 2^53, which doubles hold exactly
checkMemoryWarning(imgs) ==
    LET estimatedMemory == TotalPixels(imgs) * 4 * 2
    IN estimatedMemory > 500 * 1024 * 1024

InitMemory ==
    /\ Mounted
    /\ call \in [fn : {"checkMemoryWarning"},
                 images : SeqsUpTo(ImageSizes, MaxQueue), ret : {<<>>}]

CheckMemoryWarningCall ==
    /\ call.fn = "checkMemoryWarning"
    /\ call.ret = <<>>
    /\ call' = [call EXCEPT !.ret = <<checkMemoryWarning(call.images)>>]
    /\ UNCHANGED pipelineVars

NextMemory == CheckMemoryWarningCall

SpecMemory == InitMemory /\ [][NextMemory]_vars

\* ------------------------------------------------------------ colorUtils
\* A colour string is a sequence of characters.
MaxHexLen == 7    \* characters of a string handed to isValidHex

\* the characters of those strings: the hash, a lower-case and an upper-case
\* hex letter, a digit, and a letter that is no hex digit
HexInputChars == {"#", "a", "F", "9", "g"}

\* the value of a hex digit, -1 for any other character: [A-Fa-f0-9], and
\* [a-f\d] under the i flag
HexDigitValue(c) ==
    CASE c = "0" -> 0 [] c = "1" -> 1 [] c = "2" -> 2 [] c = "3" -> 3
      [] c = "4" -> 4 [] c = "5" -> 5 [] c = "6" -> 6 [] c = "7" -> 7
      [] c = "8" -> 8 [] c = "9" -> 9
      [] c \in {"a", "A"} -> 10 [] c \in {"b", "B"} -> 11
      [] c \in {"c", "C"} -> 12 [] c \in {"d", "D"} -> 13
      [] c \in {"e", "E"} -> 14 [] c \in {"f", "F"} -> 15
      [] OTHER -> 0 - 1

IsHexDigit(c) == HexDigitValue(c) >= 0

\* s[from..] is n hex digits and nothing else
HexDigitsFrom(s, from, n) ==
    /\ Len(s) = from - 1 + n
    /\ \A k \in from..Len(s) : IsHexDigit(s[k])

\* /^#([A-Fa-f0-9]{6}|[A-Fa-f0-9]{3})$/.test(color)
isValidHex(color) ==
    /\ Len(color) >= 1
    /\ color[1] = "#"
    /\ (HexDigitsFrom(color, 2, 6) \/ HexDigitsFrom(color, 2, 3))

InitHex ==
    /\ Mounted
    /\ call \in [fn : {"isValidHex"},
                 color : SeqsUpTo(HexInputChars, MaxHexLen), ret : {<<>>}]

IsValidHexCall ==
    /\ call.fn = "isValidHex"
    /\ call.ret = <<>>
    /\ call' = [call EXCEPT !.ret = <<isValidHex(call.color)>>]
    /\ UNCHANGED pipelineVars

NextHex == IsValidHexCall

SpecHex == InitHex /\ [][NextHex]_vars

\* the hex digits of the colours handed to getContrastColor
ContrastDigits == {"0", "3", "8", "a", "d", "F"}

\* colours of three and of six hex digits, with and without the hash
ContrastColors ==
    LET digits == [1..3 -> ContrastDigits] \cup [1..6 -> ContrastDigits]
    IN digits \cup {<<"#">> \o d : d \in digits}

\* parseInt of two hex digits
ParseHexPair(s, k) == 16 * HexDigitValue(s[k]) + HexDigitValue(s[k + 1])

\* /^#?([a-f\d]{2})([a-f\d]{2})([a-f\d]{2})$/i.exec(hex): <<>> for null
hexToRgb(hex) ==
    LET from == IF Len(hex) >= 1 /\ hex[1] = "#" THEN 2 ELSE 1
    IN IF HexDigitsFrom(hex, from, 6)
       THEN <<[r |-> ParseHexPair(hex, from),
               g |-> ParseHexPair(hex, from + 2),
               b |-> ParseHexPair(hex, from + 4)]>>
       ELSE <<>>

\* (0.299 * r + 0.587 * g + 0.114 * b) / 255 > 0.5 in doubles. Over the
\* 2^24 colours the double differs from the exact comparison
\* 299 r + 587 g + 114 b > 127500 for one colour only: for r = 218, g = 58,
\* b = 248 the exact value is 0.5 and the double is 0.5000000000000001.
LuminanceAboveHalf(rgb) ==
    \/ 299 * rgb.r + 587 * rgb.g + 114 * rgb.b > 127500
    \/ (rgb.r = 218 /\ rgb.g = 58 /\ rgb.b = 248)

getContrastColor(hex) ==
    LET rgb == hexToRgb(hex)
    IN IF rgb = <<>> THEN "#000000"
       ELSE IF LuminanceAboveHalf(rgb[1]) THEN "#000000" ELSE "#FFFFFF"

InitContrast ==
    /\ Mounted
    /\ call \in [fn : {"getContrastColor"}, hex : ContrastColors,
                 ret : {<<>>}]

GetContrastColorCall ==
    /\ call.fn = "getContrastColor"
    /\ call.ret = <<>>
    /\ call' = [call EXCEPT !.ret = <<getContrastColor(call.hex)>>]
    /\ UNCHANGED pipelineVars

NextContrast == GetContrastColorCall

SpecContrast == InitContrast /\ [][NextContrast]_vars

\* ---------------------------------------------------- generateZipFilename
\* new Date() is an instant: a day, counted from 30 December 2024, and a
\* minute of that day, both in UTC. The time zone of the browser is its
\* offset from UTC in minutes, positive to the east.
MaxDays == 3    \* UTC days of the instants, from 31 December 2024 on

Instants ==
    [day : 1..MaxDays,
     minute : {60 * h + m : h \in 0..23, m \in {0, 5, 59}}]

TimeZoneOffsets == {0 - 720, 0 - 300, 0, 60, 330, 840}

IsLeapYear(y) == (y % 4 = 0 /\ y % 100 # 0) \/ y % 400 = 0

DaysInMonth(y, m) ==
    IF m = 2 THEN (IF IsLeapYear(y) THEN 29 ELSE 28)
    ELSE IF m \in {4, 6, 9, 11} THEN 30 ELSE 31

\* the calendar date of day n
RECURSIVE CivilDate(_)
CivilDate(n) ==
    IF n = 0 THEN [year |-> 2024, month |-> 12, date |-> 30]
    ELSE LET p == CivilDate(n - 1)
         IN IF p.date < DaysInMonth(p.year, p.month)
            THEN [p EXCEPT !.date = @ + 1]
            ELSE IF p.month < 12
            THEN [p EXCEPT !.month = @ + 1, !.date = 1]
            ELSE [year |-> p.year + 1, month |-> 1, date |-> 1]

\* a number in two digits
Pad2(n) == IF n < 10 THEN <<"0">> \o Digits(n) ELSE Digits(n)

\* the instant seen from a time zone
LocalTime(now, offset) ==
    LET t == 1440 * now.day + now.minute + offset
    IN [day |-> t \div 1440, minute |-> t % 1440]

\* YYYY-MM-DD of a day
DateString(day) ==
    LET c == CivilDate(day)
    IN Digits(c.year) \o <<"-">> \o Pad2(c.month) \o <<"-">> \o Pad2(c.date)

\* HHMM of a minute of the day
TimeString(minute) == Pad2(minute \div 60) \o Pad2(minute % 60)

\* date.toISOString().slice(0, 10): the date in UTC
ToISOStringDate(now) == DateString(now.day)

\* date.toTimeString().slice(0, 5).replace(':', ''): the time of the zone
ToTimeStringHHMM(now, offset) == TimeString(LocalTime(now, offset).minute)

ZipFilename(dateStr, timeStr) ==
    <<"f", "r", "a", "m", "r", "-", "e", "x", "p", "o", "r", "t", "-">>
    \o dateStr \o <<"-">> \o timeStr \o <<".", "z", "i", "p">>

generateZipFilename(now, offset) ==
    LET dateStr == ToISOStringDate(now)
        timeStr == ToTimeStringHHMM(now, offset)
    IN ZipFilename(dateStr, timeStr)

InitZipFilename ==
    /\ Mounted
    /\ call \in [fn : {"generateZipFilename"}, now : Instants,
                 offset : TimeZoneOffsets, ret : {<<>>}]

GenerateZipFilenameCall ==
    /\ call.fn = "generateZipFilename"
    /\ call.ret = <<>>
    /\ call' = [call EXCEPT
                  !.ret = <<generateZipFilename(call.now, call.offset)>>]
    /\ UNCHANGED pipelineVars

NextZipFilename == GenerateZipFilenameCall

SpecZipFilename == InitZipFilename /\ [][NextZipFilename]_vars

\* ------------------------------------------- the worker, message by message
\* The worker on its own: the process messages it is sent, each with the
\* ImageBitmap transferred along with it, and every message it posts, in
\* order and tagged with the process message it answers. The hook posts the
\* same imageId twice when two runs hold the same image.
MaxJobs == 3    \* process messages sent to the worker

\* the posts of one activation of processImage
PostedBy(job, msgs) == [k \in 1..Len(msgs) |-> [job |-> job, msg |-> msgs[k]]]

\* imageBitmap.close() follows drawImage: it is reached when nothing before
\* it has thrown
BitmapClosed(fail) == fail = "none"

InitWorker ==
    /\ Mounted
    /\ call \in [fn : {"worker"},
                 inbox : SeqsUpTo(1..MaxImages, MaxJobs) \ {<<>>},
                 jobs : {<<>>}, posted : {<<>>}]

\* self.onmessage and processImage up to `await convertToBlob` or the catch
WorkerOnMessage ==
    /\ call.fn = "worker"
    /\ call.inbox # <<>>
    /\ LET id  == Head(call.inbox)
           job == Len(call.jobs) + 1
       IN \E fail \in Failures :
            call' = [call EXCEPT
                       !.inbox = Tail(@),
                       !.jobs = Append(@,
                          [imageId |-> id,
                           pc |-> IF fail = "none" THEN "convertToBlob"
                                  ELSE "done",
                           bitmapClosed |-> BitmapClosed(fail)]),
                       !.posted = @ \o
                          PostedBy(job, ProcessImageToAwait(id, fail))]
    /\ UNCHANGED pipelineVars

\* convertToBlob settles and processImage runs to its end
WorkerConvertToBlobSettles ==
    /\ call.fn = "worker"
    /\ \E job \in DOMAIN call.jobs : \E ok \in BOOLEAN :
         /\ call.jobs[job].pc = "convertToBlob"
         /\ call' = [call EXCEPT
                       !.jobs[job].pc = "done",
                       !.posted = @ \o
                          PostedBy(job,
                             ProcessImageAfterAwait(call.jobs[job].imageId,
                                                    ok))]
    /\ UNCHANGED pipelineVars

NextWorker == WorkerOnMessage \/ WorkerConvertToBlobSettles

\* the worker takes every message and every encode settles
SpecWorker == InitWorker /\ [][NextWorker]_vars /\ WF_vars(NextWorker)

\* ------------------------------------------------------------- properties
NItems(r) == Len(runs[r].items)

Ended(r) == runs[r].pc = "done" /\ NItems(r) > 0

\* S is strictly increasing
Ascending(S) ==
    \A a, b \in 1..Len(S) : a < b => S[a] < S[b]

Range(S) == {S[k] : k \in 1..Len(S)}

\* C1: at most one image at a time has been posted to the worker without its
\* terminal message (result or error) having been received.
C1_OneInFlight == inflight <= 1

\* C2: once cancelProcessing has been called during a run, that run starts
\* (decodes, dispatches) no item other than the one it was at when cancel
\* was called.
C2_NoItemAfterCancel ==
    \A r \in 1..MaxRuns :
       runs[r].cancelReq => \A k \in runs[r].started : k <= runs[r].cancelIdx

\* C3: in a run of N items that was not cancelled and in which exactly item
\* k failed, onImageError was invoked exactly once and only for k,
\* onImageComplete exactly once for each other item, every item was
\* started and the returned list has N-1 results.
C3_OneFailure ==
    \A r \in 1..MaxRuns :
       (Ended(r) /\ ~runs[r].cancelReq /\ Cardinality(runs[r].failed) = 1) =>
          LET k == CHOOSE x \in runs[r].failed : TRUE
              all == 0..(NItems(r) - 1)
          IN /\ runs[r].errLog = <<k>>
             /\ Range(runs[r].doneLog) = all \ {k}
             /\ Len(runs[r].doneLog) = NItems(r) - 1
             /\ runs[r].started = all
             /\ Len(runs[r].results) = NItems(r) - 1

\* a run of two items ended, its first item failed and its second succeeded
C3_Witness ==
    \E r \in 1..MaxRuns :
       /\ Ended(r) /\ ~runs[r].cancelReq
       /\ NItems(r) = 2
       /\ runs[r].failed = {0}
       /\ runs[r].results = <<1>>

\* C5: the list a run returns holds its results in submission order, and
\* onImageComplete is invoked in that same order.
C5_SubmissionOrder ==
    \A r \in 1..MaxRuns :
       /\ Ascending(runs[r].results)
       /\ runs[r].doneLog = runs[r].results

\* a run returned two results
C5_Witness ==
    \E r \in 1..MaxRuns : Ended(r) /\ Len(runs[r].results) = 2

\* C4: every run started with a non-empty list eventually ends, and when it
\* ends isProcessing is false, progress is 100 and state.results is the list
\* the run returns.
EndOk(r) ==
    /\ runs[r].endState.isProcessing = FALSE
    /\ PctEq(runs[r].endState.progress, Pct(100, 1))
    /\ runs[r].endState.results = ResultIds(runs[r])

C4_RunEnds ==
    \A r \in 1..MaxRuns :
       Active(runs[r]) ~> (runs[r].pc = "done" /\ EndOk(r))

\* a cancelled run ended after one success and one failure
C4_Witness ==
    \E r \in 1..MaxRuns :
       /\ Ended(r) /\ runs[r].cancelReq
       /\ Len(runs[r].results) = 1
       /\ Len(runs[r].errLog) = 1

\* C6: when a cancelled run ends, every image it was given and never started
\* is Pending; a call of handleProcess hands exactly the Pending images to
\* a run and clears the cancellation flag; and a run that is not cancelled
\* itself brings every image it was given to Done or Failed.
StatusOf(imgs, id) ==
    {imgs[k].status : k \in {j \in DOMAIN imgs : imgs[j].id = id}}

PendingIds(imgs) ==
    LET p == SelectSeq(imgs, LAMBDA x : x.status = "pending")
    IN [k \in 1..Len(p) |-> p[k].id]

C6_Resume ==
    [][\A r \in 1..MaxRuns :
         /\ (runs[r].pc # "done" /\ runs'[r].pc = "done" /\ runs'[r].cancelReq) =>
               \A k \in 0..(Len(runs'[r].items) - 1) :
                  k \notin runs'[r].started =>
                     StatusOf(images', runs'[r].items[k + 1]) \subseteq {"pending"}
         /\ (runs[r].pc = "idle" /\ runs'[r].pc # "idle" /\ runs'[r].items # <<>>) =>
               /\ runs'[r].items = PendingIds(images)
               /\ cancelledRef' = FALSE
               /\ runs'[r].pc = "decoding"
         /\ (runs[r].pc # "done" /\ runs'[r].pc = "done" /\ ~runs'[r].cancelReq) =>
               \A k \in 0..(Len(runs'[r].items) - 1) :
                  /\ k \in runs'[r].started
                  /\ StatusOf(images', runs'[r].items[k + 1]) \subseteq {"done", "error"}
    ]_vars

\* C7: an image has a processedBlob only if its status is Done and an error
\* message only if its status is Failed.
C7_BlobAndErrorMatchStatus ==
    \A k \in DOMAIN images :
       /\ images[k].processedBlob => images[k].status = "done"
       /\ images[k].error => images[k].status = "error"

\* C8: no progress update attributed to item i is applied to the batch
\* state after the run has left item i (so not after item i+1 was
\* dispatched).
C8_NoLateProgress == ~staleProgress

\* the progress message 30 of a run's second item has been applied
C8_Witness ==
    \E r \in 1..MaxRuns :
       /\ runs[r].pc = "waiting" /\ runs[r].i = 1
       /\ state.progress = Pct(130, NItems(r))

\* C9: the number of message listeners attached to the worker never exceeds
\* one.
C9_AtMostOneListener == Len(listeners) <= 1

\* C10: processImages called with an empty list returns an empty list and
\* changes nothing: the batch state, the cancellation flag, the queue, the
\* accumulated results, the listeners and the worker's inbox keep their
\* values.
C10_EmptyCallNoop ==
    [][\A r \in 1..MaxRuns :
         (runs[r].pc = "idle" /\ runs'[r].pc # "idle" /\ runs'[r].items = <<>>) =>
            /\ runs'[r].pc = "done"
            /\ runs'[r].results = <<>>
            /\ runs'[r].doneLog = <<>> /\ runs'[r].errLog = <<>>
            /\ state' = state
            /\ cancelledRef' = cancelledRef
            /\ images' = images /\ results' = results
            /\ listeners' = listeners /\ inbox' = inbox
    ]_vars

\* processImages was called with an empty list while an earlier run was
\* cancelled and still waiting for the worker
C10_Witness ==
    \E r \in 2..MaxRuns :
       /\ runs[r].pc = "done" /\ runs[r].items = <<>>
       /\ cancelledRef
       /\ runs[r - 1].pc = "waiting"

\* C11: for non-negative integer widths and heights (zero included), every
\* percent border width in 0..100 and both values of aspectAware, each of the
\* four insets calculateBorderSize returns is a number >= 0; with aspectAware
\* false all four equal round(min(width, height) * borderWidth / 100).
C11_InsetsNonNegative ==
    Returned("calculateBorderSize") /\ call.borderSettings.widthUnit = "%" =>
        LET b == call.ret[1]
            m == ExactRound(Min(call.imageWidth, call.imageHeight)
                              * call.borderSettings.width, 100)
        IN /\ \A s \in {b.top, b.right, b.bottom, b.left} :
                 s.k = "number" /\ s.v >= 0
           /\ ~call.borderSettings.aspectAware =>
                 \A s \in {b.top, b.right, b.bottom, b.left} : s = Num(m)

\* C12: with aspectAware set and inset magnitude m, a wide image has
\* top = bottom = m and left = right = round(m * width / height), a tall
\* image has left = right = m and top = bottom = round(m * height / width),
\* and a square image has all four insets equal to m.
C12_AspectAwareInsets ==
    /\ Returned("calculateBorderSize")
    /\ call.borderSettings.aspectAware
    /\ call.imageWidth > 0
    /\ call.imageHeight > 0
    => LET b == call.ret[1]
           w == call.imageWidth
           h == call.imageHeight
           m == BorderSize(w, h, call.borderSettings)
           long == IF w > h THEN Num(ExactRound(m * w, h))
                   ELSE IF w < h THEN Num(ExactRound(m * h, w))
                   ELSE Num(m)
       IN IF w > h
          THEN b.top = Num(m) /\ b.bottom = Num(m)
               /\ b.left = long /\ b.right = long
          ELSE IF w < h
          THEN b.left = Num(m) /\ b.right = Num(m)
               /\ b.top = long /\ b.bottom = long
          ELSE \A s \in {b.top, b.right, b.bottom, b.left} : s = Num(m)

\* C13: the worker's destination surface measures (rw + left + right) by
\* (rh + top + bottom), where (rw, rh) is calculateOutputDimensions of the
\* original size and the insets are computed from (rw, rh), never from the
\* original size; left = right and top = bottom, so the source drawn at
\* (left, top) with size (rw, rh) is centred; 4000 x 3000 with a 5 percent
\* border that is not aspect-aware gives a 4300 x 3300 canvas.
C13_SurfaceSize ==
    Returned("processImage") =>
        LET g == call.ret[1]
            r == calculateOutputDimensions(call.imageBitmap.width,
                     call.imageBitmap.height, call.config.resize)
            b == calculateBorderSize(r.width, r.height, call.config.border)
        IN /\ g.type = "drawn"
           /\ g.canvasWidth = Num(r.width + b.left.v + b.right.v)
           /\ g.canvasHeight = Num(r.height + b.top.v + b.bottom.v)
           /\ b.left = b.right /\ b.top = b.bottom
           /\ g.dx = b.left /\ g.dy = b.top
           /\ g.dWidth = r.width /\ g.dHeight = r.height
           \* as much room right of and below the source as left of and above
           /\ g.canvasWidth.v - g.dx.v - g.dWidth = g.dx.v
           /\ g.canvasHeight.v - g.dy.v - g.dHeight = g.dy.v
           /\ (/\ call.imageBitmap = [width |-> 4000, height |-> 3000]
               /\ ~call.config.resize.enabled
               /\ call.config.border =
                    [width |-> 5, widthUnit |-> "%", aspectAware |-> FALSE])
              => g.canvasWidth = Num(4300) /\ g.canvasHeight = Num(3300)

\* a resize that changes the size, with a percent border whose insets on the
\* resized image differ from those on the original
C13_Witness ==
    /\ Returned("processImage")
    /\ call.config.resize.enabled
    /\ call.config.border.widthUnit = "%"
    /\ call.config.border.aspectAware
    /\ call.ret[1].type = "drawn"
    /\ call.ret[1].dWidth # call.imageBitmap.width
    /\ call.ret[1].dWidth # call.ret[1].dHeight
    /\ call.ret[1].dx.v > 0
    /\ calculateBorderSize(call.imageBitmap.width, call.imageBitmap.height,
                           call.config.border).left # call.ret[1].dx

\* C14: with resize enabled, maintainAspect set and a positive target width
\* tw and a positive target height th, calculateOutputDimensions scales the
\* original by min(tw / origW, th / origH), and the returned width is <= tw
\* and the returned height is <= th.
C14_FitsInside ==
    /\ Returned("calculateOutputDimensions")
    /\ call.resizeSettings.enabled
    /\ call.resizeSettings.maintainAspect
    /\ call.resizeSettings.unit = "px"
    /\ call.resizeSettings.width > 0
    /\ call.resizeSettings.height > 0
    => LET tw == call.resizeSettings.width
           th == call.resizeSettings.height
           ow == call.originalWidth
           oh == call.originalHeight
           byWidth == tw * oh <= th * ow
           rn == IF byWidth THEN tw ELSE th
           rd == IF byWidth THEN ow ELSE oh
       IN /\ call.ret[1].width <= tw
          /\ call.ret[1].height <= th
          /\ call.ret[1].width = ExactRound(ow * rn, rd)
          /\ call.ret[1].height = ExactRound(oh * rn, rd)

\* C15: with resize enabled, maintainAspect set and exactly one positive
\* target dimension, calculateOutputDimensions returns the given dimension
\* unchanged and the other as the nearest integer to given * original ratio:
\* height = round(w * origH / origW) or width = round(h * origW / origH).
C15_DerivedDimension ==
    /\ Returned("calculateOutputDimensions")
    /\ call.resizeSettings.enabled
    /\ call.resizeSettings.maintainAspect
    /\ call.resizeSettings.unit = "px"
    => LET w == call.resizeSettings.width
           h == call.resizeSettings.height
           ow == call.originalWidth
           oh == call.originalHeight
       IN /\ w > 0 /\ h = 0 =>
               call.ret[1] = [width |-> w, height |-> ExactRound(w * oh, ow)]
          /\ h > 0 /\ w = 0 =>
               call.ret[1] = [width |-> ExactRound(h * ow, oh), height |-> h]

\* a requested or derived output dimension that the resize computes as zero
ComputedZero(originalWidth, originalHeight, resizeSettings) ==
    LET t == ResizeTarget(originalWidth, originalHeight, resizeSettings)
    IN /\ resizeSettings.enabled
       /\ \/ resizeSettings.width > 0 /\ t.width = 0
          \/ resizeSettings.height > 0 /\ t.height = 0
          \/ /\ resizeSettings.maintainAspect
             /\ resizeSettings.width > 0 \/ resizeSettings.height > 0
             /\ t.width = 0 \/ t.height = 0

\* C16: a resize/border configuration whose computed output width or height
\* is zero or negative is rejected as a configuration error before any item
\* is dispatched to the worker; the value is never replaced by another one
\* and composited.
C16_InvalidGeometryRejected ==
    /\ Returned("processImage")
    /\ ComputedZero(call.imageBitmap.width, call.imageBitmap.height,
                    call.config.resize)
    /\ call.config.border.width = 0
    => call.ret[1].type # "drawn"

\* C17: with resize disabled calculateOutputDimensions returns exactly the
\* original width and height whatever the other resize fields contain, and
\* applying it to its own output returns the same again.
C17_DisabledEchoes ==
    Returned("calculateOutputDimensions") /\ ~call.resizeSettings.enabled =>
        /\ call.ret[1] = [width |-> call.originalWidth,
                          height |-> call.originalHeight]
        /\ calculateOutputDimensions(call.ret[1].width, call.ret[1].height,
                                     call.resizeSettings) = call.ret[1]

\* a disabled resize whose other fields ask for a different size
C17_Witness ==
    /\ Returned("calculateOutputDimensions")
    /\ ~call.resizeSettings.enabled
    /\ call.resizeSettings.maintainAspect
    /\ call.resizeSettings.width > 0
    /\ call.resizeSettings.width # call.originalWidth
    /\ call.originalWidth # call.originalHeight
    /\ call.ret[1].width = call.originalWidth

\* s ends with t
EndsWith(s, t) ==
    Len(t) <= Len(s) /\ SubSeq(s, Len(s) - Len(t) + 1, Len(s)) = t

\* name = base \o <<".">> \o ext with ext a non-empty extension
SplitsAs(name, base, ext) ==
    /\ name = base \o <<".">> \o ext
    /\ ext # <<>>
    /\ \A k \in DOMAIN ext : ext[k] # "."

\* C18: for every source filename and every output format (SameAsInput
\* included) the output filename is the source name with its trailing
\* extension stripped, followed by `_bordered.` and the resolved extension,
\* and a JPEG output always carries the extension jpg, never jpeg.
C18_OutputFilename ==
    Returned("generateOutputFilename") =>
        LET out == call.ret[1].filename
            name == call.filename
            mark == <<"_", "b", "o", "r", "d", "e", "r", "e", "d", ".">>
            \* the source's extension: what follows its last dot
            exts == {e \in {SubSeq(name, k, Len(name)) : k \in 1..Len(name)} :
                       \E b \in SeqsUpTo({"a", "."}, Len(name)) :
                           SplitsAs(name, b, e)}
            base == IF exts = {} THEN name
                    ELSE CHOOSE b \in SeqsUpTo({"a", "."}, Len(name)) :
                             \E e \in exts : SplitsAs(name, b, e)
            resolved == IF call.format = "original"
                        THEN IF exts = {} THEN <<"j", "p", "g">>
                             ELSE ToLowerCase(CHOOSE e \in exts : TRUE)
                        ELSE IF call.format = "jpeg" THEN <<"j", "p", "g">>
                        ELSE FormatChars(call.format)
        IN /\ out = base \o mark \o resolved
           /\ call.ret[1].mimeType = "image/jpeg" =>
                 EndsWith(out, <<".", "j", "p", "g">>)

\* the k-th entry keeps its name or takes the first unused base_N.ext
NamedByRule(names, entries, k) ==
    LET before == {entries[j] : j \in 1..(k - 1)}
    IN IF names[k] \notin before
       THEN entries[k] = names[k]
       ELSE \E N \in 1..k :
              /\ entries[k] = Renamed(names[k], N)
              /\ entries[k] \notin before
              /\ \A M \in 1..(N - 1) : Renamed(names[k], M) \in before

ZipNamesOk ==
    call.fn = "downloadAsZip" =>
        /\ \A j, k \in DOMAIN call.entries :
              j # k => call.entries[j] # call.entries[k]
        /\ Len(call.entries) <= Len(call.results)
        /\ \A k \in DOMAIN call.entries :
              NamedByRule(call.results, call.entries, k)
        /\ call.pc = "done" =>
              /\ Len(call.entries) = Len(call.results)
              /\ LET n == <<"a", "_", "b", "o", "r", "d", "e", "r", "e", "d",
                            ".", "j", "p", "g">>
                 IN call.results = <<n, n>> =>
                       call.entries =
                          <<n, <<"a", "_", "b", "o", "r", "d", "e", "r", "e",
                                 "d", "_", "1", ".", "j", "p", "g">>>>

\* C19: downloadAsZip gives every result a distinct archive entry name, in
\* result order: a result keeps its filename if that name is not yet used,
\* otherwise it receives the first unused name base_N.ext with N = 1, 2, ...;
\* the naming loop terminates and the archive has as many entries as there
\* are results (two results named a_bordered.jpg become a_bordered.jpg and
\* a_bordered_1.jpg).
C19_DistinctEntryNames ==
    /\ []ZipNamesOk
    /\ (call.fn = "downloadAsZip") ~> (call.pc = "done")

\* three results a.j, a_1.j, a.j: the third is renamed twice, to a_2.j
C19_Witness ==
    /\ call.fn = "downloadAsZip"
    /\ call.pc = "done"
    /\ call.results = <<<<"a", ".", "j">>, <<"a", "_", "1", ".", "j">>,
                        <<"a", ".", "j">>>>
    /\ call.entries[3] = <<"a", "_", "2", ".", "j">>

\* the items of run r that have settled: succeeded or failed
Settled(r) == Len(runs[r].results) + Cardinality(runs[r].failed)

\* run r has the image of message msg in flight
InFlightFor(r, msg) ==
    /\ runs[r].pc = "waiting"
    /\ runs[r].items[runs[r].i + 1] = msg.imageId

\* C20: whenever a progress message with value p arrives for the item
\* currently in flight in a run of n items, aggregate progress becomes
\* ((c + p / 100) / n) * 100, where c is the number of items of that run that
\* have already settled (succeeded or failed).
C20_AggregateProgress ==
    [][(/\ outbox # <<>>
        /\ outbox' = Tail(outbox)
        /\ Head(outbox).type = "progress")
       => \A r \in 1..MaxRuns :
             InFlightFor(r, Head(outbox)) =>
                PctEq(state'.progress,
                      Pct(100 * Settled(r) + Head(outbox).progress,
                          NItems(r)))]_vars

\* the bytes estimated for a queue: width * height * 4 * 2 for each image
RECURSIVE EstimatedBytes(_)
EstimatedBytes(imgs) ==
    IF imgs = <<>> THEN 0
    ELSE imgs[1].originalWidth * imgs[1].originalHeight * 4 * 2
         + EstimatedBytes(Tail(imgs))

\* C21: checkMemoryWarning returns true exactly when the estimated bytes of
\* the queue, width * height * 4 * 2 summed over its images, exceed
\* 500 * 1024 * 1024, and false otherwise: for the empty queue and for a sum
\* equal to the threshold too.
C21_MemoryWarning ==
    Returned("checkMemoryWarning") =>
       call.ret[1] = (EstimatedBytes(call.images) > 500 * 1024 * 1024)

\* a queue of two images whose estimate is the threshold itself got no warning
C21_Witness ==
    /\ Returned("checkMemoryWarning")
    /\ Len(call.images) = 2
    /\ EstimatedBytes(call.images) = 500 * 1024 * 1024
    /\ call.ret[1] = FALSE

\* s is three or six hex digits after an optional leading hash
OptionalHashHex(s) ==
    LET from == IF Len(s) >= 1 /\ s[1] = "#" THEN 2 ELSE 1
    IN HexDigitsFrom(s, from, 3) \/ HexDigitsFrom(s, from, 6)

\* C22: isValidHex accepts exactly the strings made of an optional leading
\* hash followed by exactly three or exactly six hex digits.
C22_ValidHex ==
    Returned("isValidHex") => call.ret[1] = OptionalHashHex(call.color)

\* the colour a string of three or six hex digits stands for, each digit of
\* the shorthand doubled
ColorOf(s) ==
    LET from == IF Len(s) >= 1 /\ s[1] = "#" THEN 2 ELSE 1
        d(k) == HexDigitValue(s[from + k])
    IN IF Len(s) - from + 1 = 3
       THEN [r |-> 17 * d(0), g |-> 17 * d(1), b |-> 17 * d(2)]
       ELSE [r |-> 16 * d(0) + d(1), g |-> 16 * d(2) + d(3),
             b |-> 16 * d(4) + d(5)]

\* C23: for every valid hex colour, three-digit shorthand or six-digit,
\* getContrastColor returns #000000 when the luminance
\* (0.299 R + 0.587 G + 0.114 B) / 255 of the colour is above 0.5 and
\* #FFFFFF otherwise.
C23_ContrastColor ==
    (Returned("getContrastColor") /\ OptionalHashHex(call.hex)) =>
       call.ret[1] = IF LuminanceAboveHalf(ColorOf(call.hex))
                     THEN "#000000" ELSE "#FFFFFF"

\* C24: generateZipFilename returns framr-export-YYYY-MM-DD-HHMM.zip where
\* the date and the time are both those of the local time of the export, for
\* every instant and every time-zone offset.
C24_LocalExportTime ==
    Returned("generateZipFilename") =>
       LET local == LocalTime(call.now, call.offset)
       IN call.ret[1] = ZipFilename(DateString(local.day),
                                    TimeString(local.minute))

\* a result or an error
IsTerminal(m) == m.type \in {"result", "error"}

\* S is progress 10, 30, ... in steps of 20 up to at most 90, then at most
\* one terminal message, then nothing
ProtocolOk(S) ==
    \A k \in 1..Len(S) :
       \/ S[k].type = "progress" /\ S[k].progress = 20 * k - 10 /\ k <= 5
       \/ IsTerminal(S[k]) /\ k = Len(S)

\* what the worker has posted for image id, in order
PostedFor(id) ==
    LET of(e) == e.msg.imageId = id
        sel == SelectSeq(call.posted, of)
    IN [k \in 1..Len(sel) |-> sel[k].msg]

\* what the worker has posted in answer to process message job, in order
PostedByJob(job) ==
    LET of(e) == e.job = job
        sel == SelectSeq(call.posted, of)
    IN [k \in 1..Len(sel) |-> sel[k].msg]

\* every process message taken is in the end answered by a terminal message
Answered ==
    \A job \in 1..MaxJobs :
       (call.fn = "worker" /\ Len(call.jobs) >= job)
          ~> (\E k \in DOMAIN call.posted :
                 call.posted[k].job = job /\ IsTerminal(call.posted[k].msg))

\* C25: for every process message the worker posts progress messages with
\* strictly increasing values, a prefix of 10, 30, 50, 70, 90, then exactly
\* one terminal message carrying the same imageId, a result or an error and
\* never both, and nothing for that imageId afterwards.
C25_MessageSequence ==
    call.fn = "worker" =>
       \A id \in 1..MaxImages : ProtocolOk(PostedFor(id))

\* C30: for every process message, the ImageBitmap transferred with it has
\* been closed by the time the worker posts the terminal message, result or
\* error.
C30_BitmapClosed ==
    call.fn = "worker" =>
       \A k \in DOMAIN call.posted :
          IsTerminal(call.posted[k].msg) =>
             call.jobs[call.posted[k].job].bitmapClosed

\* the ids of the images in the queue
QueuedIds == {images[k].id : k \in DOMAIN images}

\* C26: once an image has been removed from the queue, or the queue has been
\* cleared, the accumulated result list never again holds a result for that
\* image, also when the removal or the clearing happens during a run that
\* includes it. Ids are never reused, so an image that is not in the queue
\* has been removed or cleared.
C26_NoResultForRemoved == Range(results) \subseteq QueuedIds

\* C27: after any sequence of process, cancel and process again the
\* accumulated result list holds at most one result for each image id.
C27_OneResultPerImage ==
    \A a, b \in DOMAIN results : a # b => results[a] # results[b]

\* C28: whenever the loop of a run is still executing, an item of it being
\* decoded or in flight, isProcessing is true; it becomes false only once
\* the loop has ended.
C28_ProcessingWhileActive ==
    (\E r \in 1..MaxRuns : Active(runs[r])) => state.isProcessing

\* fractions with positive denominators: a <= b, and 0 <= a <= 100
PctLeq(a, b) == a[1] * b[2] <= b[1] * a[2]

PctInRange(a) == 0 <= a[1] /\ a[1] <= 100 * a[2]

SomeRunActive == \E r \in 1..MaxRuns : Active(runs[r])

\* C29: within one run the aggregate progress is always between 0 and 100
\* and never decreases from one state update to the next, up to and
\* including the final value 100. A step taken while a run is executing and
\* in which no run begins is a step within a run.
C29_ProgressMonotone ==
    [][(SomeRunActive /\ nRuns' = nRuns) =>
          /\ PctInRange(state'.progress)
          /\ PctLeq(state.progress, state'.progress)]_vars

====
